---- MODULE Spec2Model ----
(***************************************************************************)
(* The lazy value cell of go-jitjson: JitJSON[T] / CustomJitJSON[T].       *)
(*                                                                         *)
(* A cell holds an optional encoding (data []byte) and an optional decoded *)
(* value (val *T) and a parser (encoder/decoder pair).  Marshal and        *)
(* Unmarshal convert on demand and cache the result in the other field.    *)
(*                                                                         *)
(* The element type modelled is  T = struct{ A int; B float64 }:           *)
(*   - a value with B = NaN is rejected by every JSON encoder,             *)
(*   - an input with a string for B is a type mismatch that the decoder    *)
(*     reports after it has already stored A in the destination.           *)
(* An optional Go value (nil slice / nil pointer) is a sequence of length  *)
(* zero; a present one is a sequence of length one.                        *)
(* The variable elem names the element type T the cell is instantiated at. *)
(* pc, loc and obj are the program counters, the locals and the heap       *)
(* objects of the goroutines that call Unmarshal concurrently.             *)
(* variant names the source file of the dynamic value AnyJitJSON, whose    *)
(* fields data and val (v) are held in the variables data and val.         *)
(***************************************************************************)
EXTENDS Naturals, Sequences, FiniteSets, TLC

VARIABLES data, val, parser, last, prev, seg, elem, pc, loc, obj, variant,
          parsers, defaultParser, defaultParserName

\* The variables that the operations of the struct-typed cell leave alone.
\* The process-wide parser registry and the current default parser.
registry == <<parsers, defaultParser, defaultParserName>>

others == <<elem, pc, loc, obj, variant, registry>>

vars == <<data, val, parser, last, prev, seg, others>>

\* Cap on the number of Marshal (or Unmarshal) calls counted between two
\* writes of the cell.
MaxCalls == 3

----------------------------------------------------------------------------
\* The element type T and its encodings.

Values == [A : {0, 1}, B : {"0", "NaN"}]

\* var val T
Zero == [A |-> 0, B |-> "0"]

\* nil []byte, nil *T, nil JSONParser
None == << >>
Some(x) == <<x>>

EncA0 == "{\"A\":0,\"B\":0}"
EncA1 == "{\"A\":1,\"B\":0}"
\* insignificant leading whitespace
WsA1 == " {\"A\":1,\"B\":0}"
\* B has the wrong JSON type
BadB == "{\"A\":1,\"B\":\"x\"}"
\* what an encoder has written when it meets B = NaN; also a syntax error
PartA0 == "{\"A\":0,\"B\":"
PartA1 == "{\"A\":1,\"B\":"
Empty == ""
Null == "null"

Bytes == {Empty, Null, EncA0, EncA1, WsA1, BadB, PartA0, PartA1}

\* encoding/json, encoding/json/v2, the always-failing mock/jettison parser
Parsers == {"v1", "v2", "mock"}

\* json.Marshal(v): the encoding, or an error for an unsupported value.
EncodeV1(v) ==
    IF v.B = "NaN" THEN [bytes |-> None, err |-> TRUE]
    ELSE [bytes |-> Some(IF v.A = 0 THEN EncA0 ELSE EncA1), err |-> FALSE]

\* jsonv2.Marshal(v): same encodings; on error the buffer written so far is
\* returned together with the error.
EncodeV2(v) ==
    IF v.B = "NaN"
    THEN [bytes |-> Some(IF v.A = 0 THEN PartA0 ELSE PartA1), err |-> TRUE]
    ELSE [bytes |-> Some(IF v.A = 0 THEN EncA0 ELSE EncA1), err |-> FALSE]

\* mockParser{shouldFail: true}.Marshal
EncodeMock(v) == [bytes |-> None, err |-> TRUE]

\* parser.Marshal(jit.val)
Encode(p, v) ==
    CASE p = "v1" -> EncodeV1(v)
      [] p = "v2" -> EncodeV2(v)
      [] p = "mock" -> EncodeMock(v)

\* json.Unmarshal(b, &val) with val the zero value: the content of val when
\* the decoder returns, and whether it returned an error.
DecodeStd(b) ==
    CASE b = EncA0 -> [val |-> Zero, err |-> FALSE]
      [] b = EncA1 -> [val |-> [A |-> 1, B |-> "0"], err |-> FALSE]
      [] b = WsA1 -> [val |-> [A |-> 1, B |-> "0"], err |-> FALSE]
      [] b = Null -> [val |-> Zero, err |-> FALSE]
      [] b = BadB -> [val |-> [A |-> 1, B |-> "0"], err |-> TRUE]
      [] OTHER -> [val |-> Zero, err |-> TRUE]

\* mockParser{shouldFail: true}.Unmarshal / jettisonParser.Unmarshal
DecodeMock(b) == [val |-> Zero, err |-> TRUE]

\* parser.Unmarshal(jit.data, jit.val)
Decode(p, b) ==
    CASE p \in {"v1", "v2"} -> DecodeStd(b)
      [] p = "mock" -> DecodeMock(b)

----------------------------------------------------------------------------
\* The methods of the cell as functions of its fields.

\* Set that encodes the new value at once.
SetOf_Eager(v) == [data |-> EncodeV1(v).bytes, val |-> Some(v)]

\* Set that forgets to clear the cached encoding.
SetOf_KeepData(v) == [data |-> data, val |-> Some(v)]

\* Set(val): jit.val = &val; jit.data = nil
SetOf(v) == [data |-> None, val |-> Some(v)]

\* SetBytes that forgets to clear the cached value.
SetBytesOf_KeepVal(b) == [data |-> b, val |-> val]

\* SetBytes(data): jit.val = nil; jit.data = data
SetBytesOf(b) == [data |-> b, val |-> None]

\* UnmarshalJSON that forgets to clear the cached value.
UnmarshalJSONOf_KeepVal(b) == [data |-> b, val |-> val, err |-> FALSE]

\* UnmarshalJSON(data): jit.val = nil; jit.data = data; return nil
UnmarshalJSONOf(b) == [data |-> b, val |-> None, err |-> FALSE]

\* Marshal that returns the encoding without storing it in jit.data.
MarshalOf_NoCache(d, v, p) ==
    IF d # None THEN [data |-> d, ret |-> d, err |-> FALSE, enc |-> 0]
    ELSE IF v = None THEN [data |-> d, ret |-> None, err |-> FALSE, enc |-> 0]
    ELSE IF p = None THEN [data |-> d, ret |-> None, err |-> TRUE, enc |-> 0]
    ELSE LET r == Encode(p[1], v[1])
         IN  [data |-> d,
              ret |-> IF r.err THEN None ELSE r.bytes,
              err |-> r.err, enc |-> 1]

\* Marshal that hands an absent value to the encoder (which writes null).
MarshalOf_NullForEmpty(d, v, p) ==
    IF d # None THEN [data |-> d, ret |-> d, err |-> FALSE, enc |-> 0]
    ELSE IF v = None
    THEN [data |-> Some(Null), ret |-> Some(Null), err |-> FALSE, enc |-> 1]
    ELSE IF p = None THEN [data |-> d, ret |-> None, err |-> TRUE, enc |-> 0]
    ELSE LET r == Encode(p[1], v[1])
         IN  [data |-> r.bytes,
              ret |-> IF r.err THEN None ELSE r.bytes,
              err |-> r.err, enc |-> 1]

\* Marshal(): the new data field, the returned bytes and error, and the
\* number of encoder invocations.
MarshalOf(d, v, p) ==
    IF d # None THEN [data |-> d, ret |-> d, err |-> FALSE, enc |-> 0]
    ELSE IF v = None THEN [data |-> d, ret |-> None, err |-> FALSE, enc |-> 0]
    ELSE IF p = None THEN [data |-> d, ret |-> None, err |-> TRUE, enc |-> 0]
    ELSE LET r == Encode(p[1], v[1])
         IN  [data |-> r.bytes,
              ret |-> IF r.err THEN None ELSE r.bytes,
              err |-> r.err, enc |-> 1]

\* Unmarshal that decodes into a fresh value and returns the untouched local.
UnmarshalOf_ReturnsLocal(d, v, p) ==
    IF v # None THEN [val |-> v, ret |-> v[1], err |-> FALSE, dec |-> 0]
    ELSE IF d = None THEN [val |-> v, ret |-> Zero, err |-> FALSE, dec |-> 0]
    ELSE IF p = None THEN [val |-> v, ret |-> Zero, err |-> TRUE, dec |-> 0]
    ELSE LET r == Decode(p[1], d[1])
         IN  [val |-> Some(r.val), ret |-> Zero, err |-> r.err, dec |-> 1]

\* Unmarshal that returns the decoded value without storing it in jit.val.
UnmarshalOf_NoCache(d, v, p) ==
    IF v # None THEN [val |-> v, ret |-> v[1], err |-> FALSE, dec |-> 0]
    ELSE IF d = None THEN [val |-> v, ret |-> Zero, err |-> FALSE, dec |-> 0]
    ELSE IF p = None THEN [val |-> v, ret |-> Zero, err |-> TRUE, dec |-> 0]
    ELSE LET r == Decode(p[1], d[1])
         IN  [val |-> v, ret |-> r.val, err |-> r.err, dec |-> 1]

\* Unmarshal(): the new val field, the returned value and error, and the
\* number of decoder invocations.
UnmarshalOf(d, v, p) ==
    IF v # None THEN [val |-> v, ret |-> v[1], err |-> FALSE, dec |-> 0]
    ELSE IF d = None THEN [val |-> v, ret |-> Zero, err |-> FALSE, dec |-> 0]
    ELSE IF p = None THEN [val |-> v, ret |-> Zero, err |-> TRUE, dec |-> 0]
    ELSE LET r == Decode(p[1], d[1])
         IN  [val |-> Some(r.val), ret |-> r.val, err |-> r.err, dec |-> 1]

\* MarshalJSON that always encodes the value, ignoring the stored bytes.
MarshalJSONOf_Reencode(d, v, p) == MarshalOf(None, v, p)

\* MarshalJSON(): return jit.Marshal()
MarshalJSONOf(d, v, p) == MarshalOf(d, v, p)

----------------------------------------------------------------------------
\* The goroutines calling Unmarshal on one cell.

Threads == {1, 2}

\* The locals of one Unmarshal call: the pointer passed to the decoder, the
\* pointer the result is read through, the decoder's error, the result being
\* copied out, and what the call did to the val field.
NoLocals ==
    [dst |-> None, src |-> None, err |-> FALSE, ret |-> Zero,
     wrote |-> FALSE, sawMid |-> FALSE]

----------------------------------------------------------------------------
\* Observations of the calls made on the cell.

\* What a call returned: its name, the bytes argument or result, the value
\* argument or result, the error, and how often it ran the encoder/decoder.
Call(op, b, v, e, enc, dec) ==
    [op |-> op, bytes |-> b, val |-> v, err |-> e, enc |-> enc, dec |-> dec]

\* The calls since the cell was last written by a constructor, Set, SetBytes
\* or UnmarshalJSON.
NewSeg(op, b, v, hadData, hadVal) ==
    [set |-> op, argB |-> b, argV |-> v, nM |-> 0, nU |-> 0,
     enc |-> 0, dec |-> 0, firstM |-> "none", noParser |-> FALSE,
     hadData |-> hadData, hadVal |-> hadVal]

\* The state holds a typed cell, not a dynamic value.
NoVariant == "none"

\* var stdParser JSONParser = &jsonParser{}
StdParser == "&jsonParser{}"

\* setupParserRegistry(): the standard parser under its name and under the
\* alias encoding/json/v1, and as the default.
SetupParsers ==
    ("encoding/json" :> StdParser) @@ ("encoding/json/v1" :> StdParser)

Setup ==
    /\ parsers = SetupParsers
    /\ defaultParser = StdParser
    /\ defaultParserName = "encoding/json"

\* No goroutine is inside Unmarshal.
Idle ==
    /\ pc = [t \in Threads |-> "done"]
    /\ loc = [t \in Threads |-> NoLocals]
    /\ obj = [t \in Threads |-> Zero]

Init ==
    /\ elem = "struct"
    /\ Idle
    /\ Setup
    /\ variant = NoVariant
    /\ parser \in {None} \cup {Some(p) : p \in Parsers}
    /\ \/ \E v \in Values :
            \* New(val) / NewCustom(val, parser)
            /\ data = None /\ val = Some(v)
            /\ last = Call("New", None, v, FALSE, 0, 0)
            /\ seg = NewSeg("New", None, Some(v), FALSE, FALSE)
       \/ \E b \in {None} \cup {Some(x) : x \in Bytes} :
            \* NewFromBytes(data) / NewCustomFromBytes(data, parser)
            /\ data = b /\ val = None
            /\ last = Call("NewFromBytes", b, Zero, FALSE, 0, 0)
            /\ seg = NewSeg("NewFromBytes", b, None, FALSE, FALSE)
    /\ prev = last

Set(v) ==
    /\ data' = SetOf(v).data
    /\ val' = SetOf(v).val
    /\ prev' = last
    /\ last' = Call("Set", None, v, FALSE, 0, 0)
    /\ seg' = NewSeg("Set", None, Some(v), data # None, val # None)
    /\ UNCHANGED <<parser, others>>

SetBytes(b) ==
    /\ data' = SetBytesOf(b).data
    /\ val' = SetBytesOf(b).val
    /\ prev' = last
    /\ last' = Call("SetBytes", b, Zero, FALSE, 0, 0)
    /\ seg' = NewSeg("SetBytes", b, None, data # None, val # None)
    /\ UNCHANGED <<parser, others>>

UnmarshalJSON(b) ==
    /\ data' = UnmarshalJSONOf(b).data
    /\ val' = UnmarshalJSONOf(b).val
    /\ prev' = last
    /\ last' = Call("UnmarshalJSON", b, Zero, UnmarshalJSONOf(b).err, 0, 0)
    /\ seg' = NewSeg("UnmarshalJSON", b, None, data # None, val # None)
    /\ UNCHANGED <<parser, others>>

\* SetParser(parser): jit.parser = parser
SetParser(p) ==
    /\ parser' = p
    /\ prev' = last
    /\ last' = Call("SetParser", None, Zero, FALSE, 0, 0)
    /\ UNCHANGED <<data, val, seg, others>>

MarshalCall(op, r) ==
    /\ seg.nM < MaxCalls
    /\ data' = r.data
    /\ prev' = last
    /\ last' = Call(op, r.ret, Zero, r.err, r.enc, 0)
    /\ seg' = [seg EXCEPT !.nM = @ + 1, !.enc = @ + r.enc,
                          !.firstM = IF @ # "none" THEN @
                                     ELSE IF r.err THEN "err" ELSE "ok"]
    /\ UNCHANGED <<val, parser, others>>

Marshal == MarshalCall("Marshal", MarshalOf(data, val, parser))

MarshalJSON == MarshalCall("MarshalJSON", MarshalJSONOf(data, val, parser))

Unmarshal ==
    LET r == UnmarshalOf(data, val, parser)
    IN  /\ seg.nU < MaxCalls
        /\ val' = r.val
        /\ prev' = last
        /\ last' = Call("Unmarshal", None, r.ret, r.err, 0, r.dec)
        /\ seg' = [seg EXCEPT !.nU = @ + 1, !.dec = @ + r.dec,
                              !.noParser = @ \/ (r.err /\ r.dec = 0)]
        /\ UNCHANGED <<data, parser, others>>

Next ==
    \/ \E v \in Values : Set(v)
    \/ \E b \in {None} \cup {Some(x) : x \in Bytes} : SetBytes(b)
    \/ \E b \in {None} \cup {Some(x) : x \in Bytes} : UnmarshalJSON(b)
    \/ \E p \in {None} \cup {Some(x) : x \in Parsers} : SetParser(p)
    \/ Marshal
    \/ MarshalJSON
    \/ Unmarshal

Spec == Init /\ [][Next]_vars

TypeOK ==
    /\ data \in {None} \cup {Some(x) : x \in Bytes}
    /\ val \in {None} \cup {Some(x) : x \in Values}
    /\ parser \in {None} \cup {Some(x) : x \in Parsers}

----------------------------------------------------------------------------
\* Properties of the cell.

IsMarshal(op) == op \in {"Marshal", "MarshalJSON"}

\* C1: an Unmarshal call on a cell with data present and value absent whose
\* decoder fails returns the zero value of T and leaves data and value as
\* they were before the call (value still absent).
C1_FailedUnmarshalNotCached ==
    [][(Unmarshal /\ data # None /\ val = None /\ last'.dec = 1 /\ last'.err)
         => (last'.val = Zero /\ data' = data /\ val' = val)]_vars

\* C2: a Marshal call on a cell with value present and data absent whose
\* encoder fails returns the error and leaves data absent and the value
\* unchanged, whichever encoder the cell is configured with.
C2_FailedMarshalNotCached ==
    [][((Marshal \/ MarshalJSON) /\ val # None /\ data = None
          /\ last'.enc = 1 /\ last'.err)
         => (data' = None /\ val' = val)]_vars

\* C3 (as stated): two Marshal calls in a row return the same bytes, and the
\* second does not invoke the encoder.
C3_MarshalTwice ==
    (IsMarshal(prev.op) /\ IsMarshal(last.op))
        => (last.bytes = prev.bytes /\ last.enc = 0)

\* C3 (amended): two Marshal calls in a row of which the first succeeds
\* return the same bytes without error, and the second does not invoke the
\* encoder.
C3_MarshalTwiceAfterSuccess ==
    (IsMarshal(prev.op) /\ IsMarshal(last.op) /\ ~prev.err)
        => (last.bytes = prev.bytes /\ ~last.err /\ last.enc = 0)

C3_Witness ==
    /\ IsMarshal(prev.op) /\ IsMarshal(last.op)
    /\ ~prev.err /\ prev.enc = 1 /\ prev.bytes # None
    /\ last.bytes = prev.bytes

\* C4: two Unmarshal calls in a row return equal values, and the second does
\* not invoke the decoder.
C4_UnmarshalTwice ==
    (prev.op = "Unmarshal" /\ last.op = "Unmarshal")
        => (last.val = prev.val /\ last.dec = 0)

C4_Witness ==
    /\ prev.op = "Unmarshal" /\ last.op = "Unmarshal"
    /\ prev.dec = 1 /\ ~prev.err /\ prev.val # Zero
    /\ last.val = prev.val

\* C5 (as stated): after Set, the Marshal calls made before the next write
\* of the cell invoke the encoder exactly once in total (the first of them).
C5_SetThenMarshalEncodesOnce ==
    (seg.set = "Set" /\ seg.nM >= 1) => seg.enc = 1

\* C5 (amended): after Set, if the next Marshal call succeeds then the
\* Marshal calls made before the next write of the cell invoke the encoder
\* exactly once in total (the first of them).
C5_SetThenSuccessfulMarshalEncodesOnce ==
    (seg.set = "Set" /\ seg.firstM = "ok") => seg.enc = 1

C5_Witness ==
    /\ seg.set = "Set" /\ seg.hadData
    /\ seg.firstM = "ok" /\ seg.nM >= 2 /\ seg.enc = 1

C7_SetKeepsValueAndEncodingConsistent ==
    /\ (seg.set = "Set" /\ IsMarshal(last.op) /\ ~last.err)
           => last.bytes = EncodeV1(seg.argV[1]).bytes
    /\ (seg.set = "Set" /\ last.op = "Unmarshal")
           => (last.val = seg.argV[1] /\ ~last.err)
    /\ (seg.set = "SetBytes" /\ IsMarshal(last.op))
           => (last.bytes = seg.argB /\ ~last.err)
    /\ (seg.set = "SetBytes" /\ last.op = "Unmarshal" /\ ~last.err)
           => IF seg.argB = None THEN last.val = Zero
              ELSE /\ ~DecodeStd(seg.argB[1]).err
                   /\ last.val = DecodeStd(seg.argB[1]).val

C9_HookRoundTripIsLazy ==
    (last.op = "MarshalJSON" /\ seg.set = "UnmarshalJSON" /\ seg.nU = 0)
        => /\ last.bytes = seg.argB /\ ~last.err
           /\ seg.enc = 0 /\ seg.dec = 0

C9_Witness ==
    /\ last.op = "MarshalJSON" /\ seg.set = "UnmarshalJSON" /\ seg.nU = 0
    /\ seg.argB = Some(BadB) /\ last.bytes = Some(BadB)

\* C10: on an empty cell (data and value absent) Marshal returns empty bytes
\* and no error, and Unmarshal returns the zero value of T and no error.
C10_EmptyCell ==
    [][/\ ((Marshal \/ MarshalJSON) /\ data = None /\ val = None)
            => (last'.bytes \in {None, Some(Empty)} /\ ~last'.err)
       /\ (Unmarshal /\ data = None /\ val = None)
            => (last'.val = Zero /\ ~last'.err)]_vars

C10_Witness ==
    /\ data = None /\ val = None
    /\ IsMarshal(prev.op) /\ last.op = "Unmarshal"
    /\ prev.bytes = None /\ last.val = Zero

\* C11: a cell constructed from nil bytes or from zero-length bytes behaves
\* as the empty cell: Marshal returns empty bytes and no error, Unmarshal
\* returns the zero value of T and no error.
C11_NilOrEmptyBytesIsEmptyCell ==
    (seg.set = "NewFromBytes" /\ seg.argB \in {None, Some(Empty)})
        => /\ IsMarshal(last.op)
                => (last.bytes \in {None, Some(Empty)} /\ ~last.err)
           /\ last.op = "Unmarshal" => (last.val = Zero /\ ~last.err)

\* C14: data and value are both present only after a Marshal call that
\* encoded the value or an Unmarshal call that decoded the data; no
\* constructor, Set, SetBytes or UnmarshalJSON leaves both present.
C14_BothPresentOnlyByConversion ==
    /\ (data # None /\ val # None /\ seg.argV # None) => seg.enc >= 1
    /\ (data # None /\ val # None /\ seg.argV = None) => seg.dec >= 1
    /\ last.op \in {"New", "NewFromBytes", "Set", "SetBytes", "UnmarshalJSON"}
           => ~(data # None /\ val # None)

C14_Witness ==
    /\ data # None /\ val # None
    /\ seg.set = "SetBytes" /\ seg.hadData /\ seg.hadVal
    /\ seg.dec = 1 /\ last.op = "Unmarshal" /\ ~last.err

\* What Unmarshal returns on a cell newly constructed from the bytes b with
\* the parser p: NewFromBytes(b).Unmarshal().
UnmarshalOfNew(b, p) == UnmarshalOf(b, None, p)

Representable(p, v) ==
    /\ ~Encode(p, v).err
    /\ Decode(p, Encode(p, v).bytes[1]) = [val |-> v, err |-> FALSE]

----------------------------------------------------------------------------
\* Read: the io.Reader method of the encoding/json-only cell.

\* Largest destination buffer handed to Read.
MaxBuf == 2

Min(a, b) == IF a < b THEN a ELSE b

\* Read(p) with len(p) = k: data, err := jit.Marshal(); on an error it
\* returns (0, nil), otherwise (copy(p, data), nil).
ReadOf(d, v, k) ==
    LET r == MarshalOf(d, v, Some("v1"))
    IN  IF r.err THEN [n |-> 0, err |-> FALSE, enc |-> r.enc]
        ELSE [n |-> IF r.ret = None THEN 0 ELSE Min(k, Len(r.ret[1])),
              err |-> FALSE, enc |-> r.enc]

\* Read has a value receiver: Marshal runs on a copy of the cell, so the
\* encoding it caches is dropped when Read returns.
Read(k) ==
    LET r == ReadOf(data, val, k)
    IN  /\ prev' = last
        /\ last' = Call("Read", None, Zero, r.err, r.enc, 0) @@ [n |-> r.n]
        /\ UNCHANGED <<data, val, parser, seg, others>>

NextRead ==
    \/ Next
    \/ \E k \in 0..MaxBuf : Read(k)

SpecRead == Init /\ [][NextRead]_vars

\* C17: a failure of the encoder inside a public operation is returned to
\* the caller of that operation as an error: a Read whose Marshal fails does
\* not report success.
C17_ReadReportsMarshalFailure ==
    [][\A k \in 0..MaxBuf :
          (Read(k) /\ MarshalOf(data, val, Some("v1")).err) => last'.err]_vars

----------------------------------------------------------------------------
\* The cell instantiated at T = int and at T = *int, with the default
\* (encoding/json) parser.

Elems == {"int", "*int"}

\* var p *int = nil, and a pointer to an int
NilPtr == << >>
Ref(n) == <<n>>

ElemValues(e) == IF e = "*int" THEN {NilPtr, Ref(0), Ref(1)} ELSE {0, 1}

\* var val T
ZeroOf(e) == IF e = "*int" THEN NilPtr ELSE 0

Lit0 == "0"
Lit1 == "1"
\* insignificant leading whitespace
WsLit1 == " 1"
\* not JSON
Junk == "x"

ElemBytes == {Empty, Null, Lit0, Lit1, WsLit1, Junk}

IntLit(n) == IF n = 0 THEN Lit0 ELSE Lit1

\* json.Marshal(jit.val) for jit.val of type *T: a nil *int encodes as null.
EncodeElem(e, v) ==
    IF e = "*int" /\ v = NilPtr THEN Null
    ELSE IF e = "*int" THEN IntLit(v[1])
    ELSE IntLit(v)

\* json.Unmarshal(jit.data, jit.val) into a zero-initialised T: null leaves
\* an int at 0 and a *int at nil; a number is stored (through a newly
\* allocated int for *int); a syntax error leaves the destination untouched.
DecodeElem(e, b) ==
    IF b = Null THEN [val |-> ZeroOf(e), err |-> FALSE]
    ELSE IF b \in {Lit0, Lit1, WsLit1}
         THEN LET n == IF b = Lit0 THEN 0 ELSE 1
              IN  [val |-> IF e = "*int" THEN Ref(n) ELSE n, err |-> FALSE]
    ELSE [val |-> ZeroOf(e), err |-> TRUE]

\* New that leaves the cell empty when it is given a nil pointer.
NewOf_NilIsAbsent(e, v) ==
    IF e = "*int" /\ v = NilPtr THEN [data |-> None, val |-> None]
    ELSE [data |-> None, val |-> Some(v)]

\* New(val): &JitJSON[T]{val: &val}; the field points at the copy of the
\* argument, so it is non-nil even when the argument is a nil pointer.
NewOf(e, v) == [data |-> None, val |-> Some(v)]

\* NewFromBytes(data): &JitJSON[T]{data: data}
NewFromBytesOf(b) == [data |-> b, val |-> None]

\* Marshal that writes null for an empty cell of pointer type.
MarshalElemOf_NullForEmptyPtr(e, d, v) ==
    IF d # None THEN [data |-> d, ret |-> d, err |-> FALSE, enc |-> 0]
    ELSE IF v = None
         THEN [data |-> d, ret |-> IF e = "*int" THEN Some(Null) ELSE None,
               err |-> FALSE, enc |-> 0]
    ELSE [data |-> Some(EncodeElem(e, v[1])),
          ret |-> Some(EncodeElem(e, v[1])), err |-> FALSE, enc |-> 1]

\* Marshal() at element type e.
MarshalElemOf(e, d, v) ==
    IF d # None THEN [data |-> d, ret |-> d, err |-> FALSE, enc |-> 0]
    ELSE IF v = None THEN [data |-> d, ret |-> None, err |-> FALSE, enc |-> 0]
    ELSE [data |-> Some(EncodeElem(e, v[1])),
          ret |-> Some(EncodeElem(e, v[1])), err |-> FALSE, enc |-> 1]

\* Unmarshal() at element type e.
UnmarshalElemOf(e, d, v) ==
    IF v # None THEN [val |-> v, ret |-> v[1], err |-> FALSE, dec |-> 0]
    ELSE IF d = None THEN [val |-> v, ret |-> ZeroOf(e), err |-> FALSE, dec |-> 0]
    ELSE LET r == DecodeElem(e, d[1])
         IN  [val |-> Some(r.val), ret |-> r.val, err |-> r.err, dec |-> 1]

InitElem ==
    /\ elem \in Elems
    /\ Idle
    /\ Setup
    /\ variant = NoVariant
    /\ parser = Some("v1")
    /\ \/ \E v \in ElemValues(elem) :
            /\ data = NewOf(elem, v).data /\ val = NewOf(elem, v).val
            /\ last = Call("New", None, v, FALSE, 0, 0)
            /\ seg = NewSeg("New", None, Some(v), FALSE, FALSE)
       \/ \E b \in {None} \cup {Some(x) : x \in ElemBytes} :
            /\ data = NewFromBytesOf(b).data /\ val = NewFromBytesOf(b).val
            /\ last = Call("NewFromBytes", b, ZeroOf(elem), FALSE, 0, 0)
            /\ seg = NewSeg("NewFromBytes", b, None, FALSE, FALSE)
    /\ prev = last

SetElem(v) ==
    /\ data' = SetOf(v).data
    /\ val' = SetOf(v).val
    /\ prev' = last
    /\ last' = Call("Set", None, v, FALSE, 0, 0)
    /\ seg' = NewSeg("Set", None, Some(v), data # None, val # None)
    /\ UNCHANGED <<parser, others>>

UnmarshalJSONElem(b) ==
    /\ data' = UnmarshalJSONOf(b).data
    /\ val' = UnmarshalJSONOf(b).val
    /\ prev' = last
    /\ last' = Call("UnmarshalJSON", b, ZeroOf(elem), UnmarshalJSONOf(b).err, 0, 0)
    /\ seg' = NewSeg("UnmarshalJSON", b, None, data # None, val # None)
    /\ UNCHANGED <<parser, others>>

MarshalElem ==
    LET r == MarshalElemOf(elem, data, val)
    IN  /\ data' = r.data
        /\ prev' = last
        /\ last' = Call("Marshal", r.ret, ZeroOf(elem), r.err, r.enc, 0)
        /\ UNCHANGED <<val, parser, seg, others>>

UnmarshalElem ==
    LET r == UnmarshalElemOf(elem, data, val)
    IN  /\ val' = r.val
        /\ prev' = last
        /\ last' = Call("Unmarshal", None, r.ret, r.err, 0, r.dec)
        /\ UNCHANGED <<data, parser, seg, others>>

NextElem ==
    \/ \E v \in ElemValues(elem) : SetElem(v)
    \/ \E b \in {None} \cup {Some(x) : x \in ElemBytes} : UnmarshalJSONElem(b)
    \/ MarshalElem
    \/ UnmarshalElem

SpecElem == InitElem /\ [][NextElem]_vars

----------------------------------------------------------------------------
\* The caller's view of the cell's byte buffer.

\* The caller holds a slice over the array behind jit.data: the one it passed
\* to the constructor, SetBytes or UnmarshalJSON (stored without a copy), or
\* the one the last Marshal handed back (jit.data itself).
CallerHolds ==
    /\ data # None
    /\ \/ seg.argB = data
       \/ IsMarshal(last.op) /\ ~last.err /\ last.bytes = data

\* The caller overwrites, in place, the elements of a slice it holds.
CallerWrites(b) ==
    /\ CallerHolds
    /\ Len(b) = Len(data[1]) /\ b # data[1]
    /\ data' = Some(b)
    /\ prev' = last
    /\ last' = Call("CallerWrites", Some(b), Zero, FALSE, 0, 0)
    /\ UNCHANGED <<val, parser, seg, others>>

NextAlias ==
    \/ Next
    \/ \E b \in Bytes : CallerWrites(b)

SpecAlias == Init /\ [][NextAlias]_vars

\* C15: a change the caller makes to a byte buffer it passed to the cell or
\* received from Marshal does not alter what the next Marshal and the next
\* Unmarshal on the cell return.
C15_CallerWriteDoesNotReachCell ==
    [][\A b \in Bytes :
          CallerWrites(b)
            => /\ MarshalOf(data', val', parser').ret
                    = MarshalOf(data, val, parser).ret
               /\ UnmarshalOf(data', val', parser').ret
                    = UnmarshalOf(data, val, parser).ret
               /\ UnmarshalOf(data', val', parser').err
                    = UnmarshalOf(data, val, parser).err]_vars

----------------------------------------------------------------------------
\* Two goroutines calling Unmarshal on the same data-only cell, interleaved
\* at the granularity of a load or store of the val field and of one field
\* of a T object.

EncA1B1 == "{\"A\":1,\"B\":1}"

\* The encodings held by the shared cell: one that decodes, one whose field
\* B is a type mismatch, one that is not JSON.
RaceBytes == {EncA1B1, BadB, PartA1}

\* The decoder scans the whole input for syntax before it stores anything.
SyntaxOK(b) == b \in {EncA1B1, BadB}

\* The decoder stores field A, then field B, of the destination.
FieldA(b) == IF b \in {EncA1B1, BadB} THEN 1 ELSE 0
FieldB(b) == IF b = EncA1B1 THEN [val |-> "1", err |-> FALSE]
             ELSE [val |-> "0", err |-> TRUE]

\* Unmarshal that takes a mutex held by another call before it starts.
Blocked_Mutex(t) == \E u \in Threads \ {t} : pc[u] \notin {"check", "done"}

\* Unmarshal acquires nothing before it touches the cell.
Blocked(t) == FALSE

\* Goroutine t loads the val field while another goroutine has stored its
\* object there and is still inside the decoder.
ReadsMid(t) ==
    /\ val # None /\ val[1] # t
    /\ pc[val[1]] \in {"call", "decA", "decB"}

InitRace ==
    /\ elem = "struct"
    /\ parser = Some("v1")
    /\ \E b \in RaceBytes :
          /\ data = Some(b) /\ val = None
          /\ last = Call("NewFromBytes", Some(b), Zero, FALSE, 0, 0)
          /\ seg = NewSeg("NewFromBytes", Some(b), None, FALSE, FALSE)
    /\ prev = last
    /\ variant = NoVariant
    /\ Setup
    /\ pc = [t \in Threads |-> "check"]
    /\ loc = [t \in Threads |-> NoLocals]
    /\ obj = [t \in Threads |-> Zero]

\* if jit.val != nil { return *jit.val, nil }; var val T; jit.data is not nil
Check(t) ==
    /\ pc[t] = "check" /\ ~Blocked(t)
    /\ IF val # None
       THEN /\ pc' = [pc EXCEPT ![t] = "readA"]
            /\ loc' = [loc EXCEPT ![t].src = val,
                                  ![t].sawMid = @ \/ ReadsMid(t)]
       ELSE /\ pc' = [pc EXCEPT ![t] = "store"]
            /\ UNCHANGED loc
    /\ UNCHANGED <<data, val, parser, last, prev, seg, elem, variant, registry, obj>>

\* jit.val = &val
Store(t) ==
    /\ pc[t] = "store"
    /\ val' = Some(t)
    /\ pc' = [pc EXCEPT ![t] = "call"]
    /\ loc' = [loc EXCEPT ![t].wrote = TRUE]
    /\ UNCHANGED <<data, parser, last, prev, seg, elem, variant, registry, obj>>

\* err := jit.parser.unmarshal(jit.data, jit.val): the argument jit.val is
\* loaded from the cell; the decoder rejects invalid syntax before storing.
CallDecoder(t) ==
    /\ pc[t] = "call"
    /\ IF SyntaxOK(data[1])
       THEN /\ pc' = [pc EXCEPT ![t] = "decA"]
            /\ loc' = [loc EXCEPT ![t].dst = val,
                                  ![t].sawMid = @ \/ ReadsMid(t)]
       ELSE \* return val, err
            /\ pc' = [pc EXCEPT ![t] = "readA"]
            /\ loc' = [loc EXCEPT ![t].dst = val, ![t].err = TRUE,
                                  ![t].src = Some(t),
                                  ![t].sawMid = @ \/ ReadsMid(t)]
    /\ UNCHANGED <<data, val, parser, last, prev, seg, elem, variant, registry, obj>>

DecodeA(t) ==
    /\ pc[t] = "decA"
    /\ obj' = [obj EXCEPT ![loc[t].dst[1]].A = FieldA(data[1])]
    /\ pc' = [pc EXCEPT ![t] = "decB"]
    /\ UNCHANGED <<data, val, parser, last, prev, seg, elem, variant, registry, loc>>

DecodeB(t) ==
    /\ pc[t] = "decB"
    /\ IF FieldB(data[1]).err
       THEN \* return val, err
            /\ pc' = [pc EXCEPT ![t] = "readA"]
            /\ loc' = [loc EXCEPT ![t].err = TRUE, ![t].src = Some(t)]
            /\ UNCHANGED obj
       ELSE /\ obj' = [obj EXCEPT ![loc[t].dst[1]].B = FieldB(data[1]).val]
            /\ pc' = [pc EXCEPT ![t] = "load"]
            /\ UNCHANGED loc
    /\ UNCHANGED <<data, val, parser, last, prev, seg, elem, variant, registry>>

\* return *jit.val, nil: the val field is loaded again
Load(t) ==
    /\ pc[t] = "load"
    /\ pc' = [pc EXCEPT ![t] = "readA"]
    /\ loc' = [loc EXCEPT ![t].src = val, ![t].sawMid = @ \/ ReadsMid(t)]
    /\ UNCHANGED <<data, val, parser, last, prev, seg, elem, variant, registry, obj>>

\* The returned T is copied out of the object field by field.
ReadA(t) ==
    /\ pc[t] = "readA"
    /\ loc' = [loc EXCEPT ![t].ret.A = obj[loc[t].src[1]].A]
    /\ pc' = [pc EXCEPT ![t] = "readB"]
    /\ UNCHANGED <<data, val, parser, last, prev, seg, elem, variant, registry, obj>>

ReadB(t) ==
    /\ pc[t] = "readB"
    /\ loc' = [loc EXCEPT ![t].ret.B = obj[loc[t].src[1]].B]
    /\ pc' = [pc EXCEPT ![t] = "done"]
    /\ UNCHANGED <<data, val, parser, last, prev, seg, elem, variant, registry, obj>>

Step(t) ==
    \/ Check(t)
    \/ Store(t)
    \/ CallDecoder(t)
    \/ DecodeA(t)
    \/ DecodeB(t)
    \/ Load(t)
    \/ ReadA(t)
    \/ ReadB(t)

NextRace == \E t \in Threads : Step(t)

SpecRace == InitRace /\ [][NextRace]_vars

\* C18: two concurrent Unmarshal calls on a data-only cell race: no call
\* ever waits for the other (there is no lock), a call that found the value
\* absent writes the val field, the field is stored before the decoder has
\* filled the object it points to, and a call that loads the field while it
\* is set returns what the object holds at that moment, without an error.
C18_UnmarshalIsUnsynchronized ==
    /\ \A t \in Threads : pc[t] # "done" => ENABLED Step(t)
    /\ \A t \in Threads : pc[t] \in {"call", "decA", "decB"} => val # None
    /\ \A t \in Threads :
          (pc[t] \notin {"check", "store"} /\ loc[t].src # Some(t)
             /\ loc[t].dst = None /\ loc[t].src # None)
            => (~loc[t].wrote /\ ~loc[t].err)

\* Both calls have written the val field, and one of them returned, with no
\* error, a value that is not what the cell's bytes decode to, having loaded
\* the field while the other call was still decoding.
C18_Witness ==
    /\ data = Some(EncA1B1)
    /\ \A t \in Threads : pc[t] = "done" /\ loc[t].wrote
    /\ \E t \in Threads :
          /\ loc[t].sawMid /\ ~loc[t].err
          /\ loc[t].ret # [A |-> 1, B |-> "1"]

----------------------------------------------------------------------------
\* The dynamic value AnyJitJSON, in the revision of any_jitjson.go (fields
\* val and data; the children of a container are decoded when asked for)
\* and in the revision of part_018 (field v; the children are decoded when
\* the container is classified).

Variants == {"any_jitjson", "part_018"}

WsNull == " null"
NlArray == "[1,\n2]"
CommaArray == "[1,,]"
BadEscape == "\"\\x\""
Unterminated == "\"abc"
TwoDots == "1.2.3"
Unbalanced == "[[1,2]"
Trailing == "[1],[2]"
WsOnly == " "

\* Containers with a JSON null inside: json.Unmarshal leaves a nil
\* *AnyJitJSON in the slot of the element or of the key.
NullArray == "[null]"
NullMember == "{\"a\":null}"
NilChild == "<nil>"
NilMember == "\"a\":<nil>"

\* The inputs handed to the classification.
AnyBytes ==
    {Null, WsNull, "true", "false", "42", "-1.5e3", "\"a\"", "\"\"",
     "[]", "[1,2]", NlArray, CommaArray, "{}", "{\"a\":1}", BadEscape,
     "tru", Empty, Unterminated, TwoDots, Unbalanced, Trailing, WsOnly,
     NullArray, NullMember}

\* The inputs the regular expressions match.
NullRegex(b) == b \in {Null, WsNull}
BoolRegex(b) == b \in {"true", "false"}
NumberRegex(b) == b \in {"42", "-1.5e3"}
StringRegex(b) == b \in {"\"a\"", "\"\"", BadEscape}
\* any_jitjson.go lets the body of an array span lines, part_018 does not.
ArrayRegex(w, b) ==
    \/ b \in {"[]", "[1,2]", CommaArray, Unbalanced, Trailing, NullArray}
    \/ w = "any_jitjson" /\ b = NlArray
ObjectRegex(w, b) == b \in {"{}", "{\"a\":1}", NullMember}

\* json.Unmarshal(data, &x) validates the syntax of data before it calls
\* x.UnmarshalJSON.
ValidJSON(b) ==
    b \in AnyBytes \ {CommaArray, BadEscape, "tru", Empty, Unterminated,
                      TwoDots, Unbalanced, Trailing, WsOnly}

\* The children of a container: the element encodings of an array, the
\* members (key and value encoding) of an object.
Kids(b) ==
    IF b \in {"[1,2]", NlArray} THEN <<"1", "2">>
    ELSE IF b = "{\"a\":1}" THEN <<"\"a\":1">>
    ELSE IF b = NullArray THEN <<NilChild>>
    ELSE IF b = NullMember THEN <<NilMember>>
    ELSE << >>

\* The outer shape of a valid JSON text.
Shape(b) ==
    IF ~ValidJSON(b) THEN "TypeInvalid"
    ELSE IF b \in {Null, WsNull} THEN "TypeNull"
    ELSE IF b \in {"true", "false"} THEN "TypeBool"
    ELSE IF b \in {"42", "-1.5e3"} THEN "TypeNumber"
    ELSE IF b \in {"\"a\"", "\"\""} THEN "TypeString"
    ELSE IF b \in {"[]", "[1,2]", NlArray, NullArray} THEN "TypeArray"
    ELSE "TypeObject"

\* The dynamic type and the content of the interface field val (v): a
\* pointer to a scalar cell with its data and val, or a container with the
\* children decoded so far.
Dyn(type, cdata, cval, kids) ==
    [type |-> type, cdata |-> cdata, cval |-> cval, kids |-> kids]

\* var b JitJSON[X]; json.Unmarshal(data, &b); a.val = &b
ScalarOf(type, b) == Dyn(type, Some(b), None, << >>)

\* UnmarshalJSON(data): the new val and data fields and the error.
ClassifyOf(w, b) ==
    LET keep == IF w = "any_jitjson" THEN Some(b) ELSE None
    IN  IF NullRegex(b) THEN [val |-> None, data |-> keep, err |-> FALSE]
        ELSE IF BoolRegex(b) /\ ValidJSON(b)
             THEN [val |-> Some(ScalarOf("*JitJSON[bool]", b)),
                   data |-> keep, err |-> FALSE]
        ELSE IF NumberRegex(b) /\ ValidJSON(b)
             THEN [val |-> Some(ScalarOf("*JitJSON[json.Number]", b)),
                   data |-> keep, err |-> FALSE]
        ELSE IF StringRegex(b) /\ ValidJSON(b)
             THEN [val |-> Some(ScalarOf("*JitJSON[string]", b)),
                   data |-> keep, err |-> FALSE]
        ELSE IF ArrayRegex(w, b) /\ (w = "any_jitjson" \/ ValidJSON(b))
             THEN [val |-> Some(Dyn("[]*AnyJitJSON", None, None,
                                    IF w = "any_jitjson" THEN << >>
                                    ELSE Kids(b))),
                   data |-> keep, err |-> FALSE]
        ELSE IF ObjectRegex(w, b) /\ (w = "any_jitjson" \/ ValidJSON(b))
             THEN [val |-> Some(Dyn("map[string]*AnyJitJSON", None, None,
                                    IF w = "any_jitjson" THEN << >>
                                    ELSE Kids(b))),
                   data |-> keep, err |-> FALSE]
        ELSE [val |-> None, data |-> keep, err |-> TRUE]

\* Type(): the type switch over a.val (a.v).  part_018 lists the container
\* cases as []AnyJitJSON and map[string]AnyJitJSON and defaults to TypeNull.
TypeOf(w, v) ==
    IF v = None THEN "TypeNull"
    ELSE IF v[1].type = "*JitJSON[bool]" THEN "TypeBool"
    ELSE IF v[1].type = "*JitJSON[json.Number]" THEN "TypeNumber"
    ELSE IF v[1].type = "*JitJSON[string]" THEN "TypeString"
    ELSE IF w = "any_jitjson"
         THEN IF v[1].type = "[]*AnyJitJSON" THEN "TypeArray"
              ELSE IF v[1].type = "map[string]*AnyJitJSON" THEN "TypeObject"
              ELSE "TypeInvalid"
    ELSE IF v[1].type = "[]AnyJitJSON" THEN "TypeArray"
    ELSE IF v[1].type = "map[string]AnyJitJSON" THEN "TypeObject"
    ELSE "TypeNull"

\* The zero value AsBool, AsNumber and AsString return with ok = false,
\* written as its encoding.
ZeroScalar(type) == IF type = "*JitJSON[bool]" THEN "false" ELSE "\"\""

\* AsBool / AsNumber / AsString: the type assertion, then the scalar cell's
\* Unmarshal (Decode), which caches the decoded value in the cell.
AsScalarOf(type, v) ==
    IF v = None \/ v[1].type # type
    THEN [val |-> v, ret |-> ZeroScalar(type), ok |-> FALSE]
    ELSE IF v[1].cval # None
         THEN [val |-> v, ret |-> v[1].cval[1], ok |-> TRUE]
    ELSE [val |-> Some([v[1] EXCEPT !.cval = Some(v[1].cdata[1])]),
          ret |-> v[1].cdata[1], ok |-> TRUE]

\* AsArray / AsObject that drop the classification together with the bytes.
AsContainerOf_DropsVal(w, type, d, v) ==
    IF w = "any_jitjson"
    THEN IF d = None \/ v = None \/ v[1].type # type \/ ~ValidJSON(d[1])
         THEN [val |-> v, data |-> d, ret |-> << >>, ok |-> FALSE]
         ELSE [val |-> None, data |-> None, ret |-> Kids(d[1]), ok |-> TRUE]
    ELSE IF v = None \/ v[1].type # type
         THEN [val |-> v, data |-> d, ret |-> << >>, ok |-> FALSE]
         ELSE [val |-> v, data |-> d, ret |-> v[1].kids, ok |-> TRUE]

\* AsArray / AsObject.  any_jitjson.go decodes a.data into the children and
\* then sets a.data to nil; part_018 returns the children stored in a.v.
AsContainerOf(w, type, d, v) ==
    IF w = "any_jitjson"
    THEN IF d = None \/ v = None \/ v[1].type # type \/ ~ValidJSON(d[1])
         THEN [val |-> v, data |-> d, ret |-> << >>, ok |-> FALSE]
         ELSE [val |-> v, data |-> None, ret |-> Kids(d[1]), ok |-> TRUE]
    ELSE IF v = None \/ v[1].type # type
         THEN [val |-> v, data |-> d, ret |-> << >>, ok |-> FALSE]
         ELSE [val |-> v, data |-> d, ret |-> v[1].kids, ok |-> TRUE]

\* e.MarshalJSON() of a child: a nil child returns null (a == nil).
KidEncoding(k) ==
    IF k = NilChild THEN Null
    ELSE IF k = NilMember THEN "\"a\":" \o Null
    ELSE k

\* builder.WriteString(",") between the encodings of the children
RECURSIVE CommaJoined(_)
CommaJoined(kids) ==
    IF kids = << >> THEN ""
    ELSE IF Len(kids) = 1 THEN KidEncoding(kids[1])
    ELSE KidEncoding(kids[1]) \o "," \o CommaJoined(Tail(kids))

\* The encoding part_018 rebuilds from the children of a container.
Rebuilt(type, kids) ==
    IF type = "[]*AnyJitJSON" THEN "[" \o CommaJoined(kids) \o "]"
    ELSE "{" \o CommaJoined(kids) \o "}"

\* MarshalJSON(): any_jitjson.go returns a.data; part_018 returns null for a
\* nil v, the scalar cell's encoding, or the rebuilt container.
AnyMarshalJSONOf(w, d, v) ==
    IF w = "any_jitjson" THEN d
    ELSE IF v = None THEN Some(Null)
    ELSE IF v[1].cdata # None THEN v[1].cdata
    ELSE Some(Rebuilt(v[1].type, v[1].kids))

\* What a call on the dynamic value returned: the result, as a sequence of
\* strings (one tag, one scalar, one encoding, or the children), and the ok
\* flag or the absence of an error.
AnyCall(op, ret, ok) == [op |-> op, ret |-> ret, ok |-> ok]

\* The input of the latest classification and whether it was accepted.
ClassSeg(b, err) == [set |-> "UnmarshalJSON", argB |-> Some(b), err |-> err]

\* NewAny(data) of any_jitjson.go returns (a, err) with the error of
\* UnmarshalJSON; NewAnyJitJSON(data) of part_018 drops that error
\* (_ = a.UnmarshalJSON(data)) and returns a alone.
NewAnyOk(w, b) == IF w = "part_018" THEN TRUE ELSE ~ClassifyOf(w, b).err

InitAny ==
    /\ elem = "struct"
    /\ Idle
    /\ Setup
    /\ parser = Some("v1")
    /\ variant \in Variants
    /\ \E b \in AnyBytes :
          /\ val = ClassifyOf(variant, b).val
          /\ data = ClassifyOf(variant, b).data
          /\ last = AnyCall("NewAny", << >>, NewAnyOk(variant, b))
          /\ seg = ClassSeg(b, ClassifyOf(variant, b).err)
    /\ prev = last

AnyUnmarshalJSON(b) ==
    /\ val' = ClassifyOf(variant, b).val
    /\ data' = ClassifyOf(variant, b).data
    /\ prev' = last
    /\ last' = AnyCall("UnmarshalJSON", << >>, ~ClassifyOf(variant, b).err)
    /\ seg' = ClassSeg(b, ClassifyOf(variant, b).err)
    /\ UNCHANGED <<parser, others>>

Type ==
    /\ prev' = last
    /\ last' = AnyCall("Type", <<TypeOf(variant, val)>>, TRUE)
    /\ UNCHANGED <<data, val, parser, seg, others>>

\* IsNull(): a.Type() == TypeNull
IsNull ==
    /\ prev' = last
    /\ last' = AnyCall("IsNull", << >>, TypeOf(variant, val) = "TypeNull")
    /\ UNCHANGED <<data, val, parser, seg, others>>

AsScalar(op, type) ==
    LET r == AsScalarOf(type, val)
    IN  /\ val' = r.val
        /\ prev' = last
        /\ last' = AnyCall(op, <<r.ret>>, r.ok)
        /\ UNCHANGED <<data, parser, seg, others>>

AsBool == AsScalar("AsBool", "*JitJSON[bool]")

AsNumber == AsScalar("AsNumber", "*JitJSON[json.Number]")

AsString == AsScalar("AsString", "*JitJSON[string]")

AsContainer(op, type) ==
    LET r == AsContainerOf(variant, type, data, val)
    IN  /\ val' = r.val
        /\ data' = r.data
        /\ prev' = last
        /\ last' = AnyCall(op, r.ret, r.ok)
        /\ UNCHANGED <<parser, seg, others>>

AsArray == AsContainer("AsArray", "[]*AnyJitJSON")

AsObject == AsContainer("AsObject", "map[string]*AnyJitJSON")

AnyMarshalJSON ==
    /\ prev' = last
    /\ last' = AnyCall("MarshalJSON", AnyMarshalJSONOf(variant, data, val), TRUE)
    /\ UNCHANGED <<data, val, parser, seg, others>>

\* Type() on a nil *AnyJitJSON, such as the element decoded from a JSON null
\* inside a container: any_jitjson.go tests a == nil first; part_018 goes
\* straight to a.v, which dereferences the nil receiver and panics.
TypeOnNilOf(w) == IF w = "any_jitjson" THEN "TypeNull" ELSE "panic"

TypeOnNil ==
    /\ prev' = last
    /\ last' = AnyCall("Type(nil)", <<TypeOnNilOf(variant)>>,
                       TypeOnNilOf(variant) # "panic")
    /\ UNCHANGED <<data, val, parser, seg, others>>

\* IsNull() on a nil *AnyJitJSON: a.Type() == TypeNull
IsNullOnNil ==
    /\ prev' = last
    /\ last' = IF TypeOnNilOf(variant) = "panic"
               THEN AnyCall("IsNull(nil)", <<"panic">>, FALSE)
               ELSE AnyCall("IsNull(nil)", << >>,
                            TypeOnNilOf(variant) = "TypeNull")
    /\ UNCHANGED <<data, val, parser, seg, others>>

\* The operations that read a classified value.
\* MarshalJSON() on a nil *AnyJitJSON: part_018 tests a == nil first and
\* returns null; any_jitjson.go reads a.data, which dereferences the nil
\* receiver and panics.
MarshalJSONOnNilOf(w) == IF w = "part_018" THEN Null ELSE "panic"

MarshalJSONOnNil ==
    /\ prev' = last
    /\ last' = AnyCall("MarshalJSON(nil)", <<MarshalJSONOnNilOf(variant)>>,
                       MarshalJSONOnNilOf(variant) # "panic")
    /\ UNCHANGED <<data, val, parser, seg, others>>

\* AsBool, AsNumber, AsString, AsArray and AsObject on a nil *AnyJitJSON: in
\* both files the first statement reads a field of the receiver (a.val, a.v
\* or a.data) with no a == nil test, which dereferences nil and panics.
NilAccessors == {"AsBool", "AsNumber", "AsString", "AsArray", "AsObject"}

AsOnNilOf(w, op) == IF op \in NilAccessors THEN "panic" ELSE "ok"

AsOnNil(op) ==
    /\ prev' = last
    /\ last' = AnyCall(op \o "(nil)", <<AsOnNilOf(variant, op)>>, FALSE)
    /\ UNCHANGED <<data, val, parser, seg, others>>

Access ==
    \/ Type
    \/ IsNull
    \/ AsBool
    \/ AsNumber
    \/ AsString
    \/ AsArray
    \/ AsObject
    \/ AnyMarshalJSON

NextAny ==
    \/ \E b \in AnyBytes : AnyUnmarshalJSON(b)
    \/ Access
    \/ TypeOnNil
    \/ IsNullOnNil
    \/ MarshalJSONOnNil
    \/ \E op \in NilAccessors : AsOnNil(op)

SpecAny == InitAny /\ [][NextAny]_vars

\* C19: once a dynamic value is classified, Type() reports the same shape
\* tag after every Type, IsNull, AsBool, AsNumber, AsString, AsArray,
\* AsObject and MarshalJSON call on it.
C19_TypeIsStable ==
    [][Access => TypeOf(variant', val') = TypeOf(variant, val)]_vars

C19_Witness ==
    /\ variant = "any_jitjson" /\ seg.argB = Some("[1,2]")
    /\ prev.op = "AsArray" /\ prev.ok /\ data = None
    /\ last.op = "Type" /\ last.ret = <<"TypeArray">>

\* C20: after a successful classification, Type() reports the outer JSON
\* shape of the classified input: Null, Bool, Number, String, Array, Object.
C20_TypeIsOuterShape ==
    (~seg.err /\ ValidJSON(seg.argB[1]) /\ last.op = "Type")
        => last.ret = <<Shape(seg.argB[1])>>

\* C21: for a dynamic value classified from a valid array (object), every
\* AsArray (AsObject) call returns ok = true with the child collection, and
\* a repeated call returns the same collection.
C21_AsContainerReturnsChildren ==
    (~seg.err /\ ValidJSON(seg.argB[1])) =>
        /\ (last.op = "AsArray" /\ TypeOf(variant, val) = "TypeArray")
              => (last.ok /\ last.ret = Kids(seg.argB[1]))
        /\ (last.op = "AsObject" /\ TypeOf(variant, val) = "TypeObject")
              => (last.ok /\ last.ret = Kids(seg.argB[1]))
        /\ (prev.op = last.op /\ last.op \in {"AsArray", "AsObject"} /\ prev.ok)
              => (last.ok /\ last.ret = prev.ret)

\* C22: classification of a syntactically invalid input (unterminated
\* string, malformed number, unbalanced brackets, trailing garbage, empty or
\* whitespace-only input) returns an error and no value tagged with a shape.
C22_InvalidInputIsRejected ==
    (last.op \in {"NewAny", "UnmarshalJSON"} /\ ~ValidJSON(seg.argB[1]))
        => (~last.ok /\ val = None)

\* The valid inputs with whitespace around the value or a line break inside
\* a container.
Whitespaced == {WsNull, NlArray}

\* C23: classification of a valid JSON value succeeds with the correct shape
\* tag whatever its whitespace: whitespace around the value and line breaks
\* inside an array or object cause neither an error nor another tag.
C23_WhitespaceIsTolerated ==
    (last.op \in {"NewAny", "UnmarshalJSON"} /\ seg.argB[1] \in Whitespaced)
        => (last.ok /\ TypeOf(variant, val) = Shape(seg.argB[1]))

\* C24: when classifying an input fails the caller gets an error and no
\* usable value: the value holds neither the rejected bytes nor a partial
\* union, and does not pass for a valid (Null-shaped) value afterwards.
C24_FailedClassificationIsTerminal ==
    seg.err =>
        /\ data = None /\ val = None
        /\ last.op \in {"NewAny", "UnmarshalJSON"} => ~last.ok
        /\ last.op \in {"IsNull", "MarshalJSON"} => ~last.ok

\* C25: on a nil receiver Type() reports Null and IsNull() returns true, and
\* IsNull() returns true exactly when Type() reports Null.
C25_NilReceiverIsNull ==
    /\ last.op = "Type(nil)" => last.ret = <<"TypeNull">>
    /\ last.op = "IsNull(nil)" => (last.ok /\ last.ret # <<"panic">>)
    /\ (prev.op = "Type" /\ last.op = "IsNull")
          => (last.ok <=> prev.ret = <<"TypeNull">>)

\* An encoding without its insignificant whitespace.
Compact(b) == IF b = NlArray THEN "[1,2]" ELSE b

\* C26: MarshalJSON of a value classified from a valid array returns '['
\* followed by the comma-joined encodings of its elements followed by ']'
\* ('[]' when there are none), whether or not AsArray was called before;
\* likewise, with braces, for an object and AsObject.
C26_ContainerMarshalsItsChildren ==
    (~seg.err /\ Shape(seg.argB[1]) \in {"TypeArray", "TypeObject"}
       /\ last.op = "MarshalJSON")
        => /\ last.ok /\ last.ret # None
           /\ Compact(last.ret[1])
                = IF Shape(seg.argB[1]) = "TypeArray"
                  THEN "[" \o CommaJoined(Kids(seg.argB[1])) \o "]"
                  ELSE "{" \o CommaJoined(Kids(seg.argB[1])) \o "}"

\* C27: MarshalJSON of a Null-shaped dynamic value (nothing stored in val, or
\* a nil receiver) returns the literal null with no error, and a container
\* with a nil child encodes that child as null in its slot.
Trimmed(b) == IF b = WsNull THEN Null ELSE b

C27_NullMarshalsAsNull ==
    /\ (last.op = "MarshalJSON" /\ val = None)
           => (last.ok /\ last.ret # None /\ Trimmed(last.ret[1]) = Null)
    /\ last.op = "MarshalJSON(nil)" => (last.ok /\ last.ret = <<Null>>)
    /\ (last.op = "MarshalJSON" /\ ~seg.err
            /\ seg.argB[1] \in {NullArray, NullMember})
           => last.ret = seg.argB

----------------------------------------------------------------------------
\* The parser registry and the cells that take their parser from it: the
\* registry by name of part_026 with the cell of part_022, and the selection
\* by version of part_024 with the cell of jitjson.go.

Registries == {"part_026", "part_024"}

\* jsonV1{} and jsonV2{} of part_024
JsonV1Parser == "jsonV1{}"
JsonV2Parser == "jsonV2{}"

\* parser1 := &mockParser{name: "duplicate-parser"} and parser2 with the
\* same name; each with a marshalPrefix of its own
Parser1 == "parser1"
Parser2 == "parser2"
\* &mockParser{name: ""}
Unnamed == "unnamed"

ParserObjects == {StdParser, JsonV1Parser, JsonV2Parser, Parser1, Parser2, Unnamed}

\* parser.Name()
NameOf(p) ==
    IF p \in {StdParser, JsonV1Parser} THEN "encoding/json"
    ELSE IF p = JsonV2Parser THEN "encoding/json/v2"
    ELSE IF p \in {Parser1, Parser2} THEN "duplicate-parser"
    ELSE ""

\* mockParser.marshalPrefix
PrefixOf(p) ==
    IF p = Parser1 THEN "1:" ELSE IF p = Parser2 THEN "2:" ELSE ""

\* The names handed to SetDefaultParser and SetParser.
Names == {"encoding/json", "encoding/json/v1", "duplicate-parser",
          "non-existent-parser"}

\* ParserVersion: JsonV1, JsonV2 and an unsupported version.
JsonV1 == 1
JsonV2 == 2
Versions == {JsonV1, JsonV2, JsonV2 + 1}

\* The keys a parser is selected by: names in part_026, versions in part_024.
KeysOf(w) == IF w = "part_026" THEN Names ELSE Versions

\* parserFromVersion(version)
ParserFromVersion(version) ==
    IF version = JsonV1 THEN Some(JsonV1Parser)
    ELSE IF version = JsonV2 THEN Some(JsonV2Parser)
    ELSE None

\* parser, exists := parsers[name] / parserFromVersion(version)
SelectOf(w, reg, key) ==
    IF w = "part_024" THEN ParserFromVersion(key)
    ELSE IF key \in DOMAIN reg THEN Some(reg[key])
    ELSE None

\* The values and the encodings the cells are constructed from.
One == [A |-> 1, B |-> "0"]
NaNVal == [A |-> 0, B |-> "NaN"]
RegValues == {Zero, One, NaNVal}
RegBytes == {EncA1, PrefixOf(Parser1) \o EncA1}

\* parser.Marshal(v): the mock parser writes its prefix before the standard
\* encoding.
ParserMarshal(p, v) ==
    IF p = JsonV2Parser THEN EncodeV2(v)
    ELSE LET r == EncodeV1(v)
         IN  IF r.err \/ PrefixOf(p) = "" THEN r
             ELSE [bytes |-> Some(PrefixOf(p) \o r.bytes[1]), err |-> FALSE]

\* strings.TrimPrefix(dataStr, m.marshalPrefix) when the prefix is present
TrimPrefix(p, b) ==
    IF PrefixOf(p) # "" /\ \E x \in Bytes : b = PrefixOf(p) \o x
    THEN CHOOSE x \in Bytes : b = PrefixOf(p) \o x
    ELSE b

\* parser.Unmarshal(data, &val)
ParserUnmarshal(p, b) ==
    LET x == TrimPrefix(p, b)
    IN  IF x \in Bytes THEN DecodeStd(x) ELSE [val |-> Zero, err |-> TRUE]

\* RegisterParser that stores the parser before it looks for a duplicate.
RegisterParserOf_StoresFirst(reg, p) ==
    IF p = None THEN [parsers |-> reg, err |-> TRUE]
    ELSE IF NameOf(p[1]) = "" THEN [parsers |-> reg, err |-> TRUE]
    ELSE [parsers |-> (NameOf(p[1]) :> p[1]) @@ reg,
          err |-> NameOf(p[1]) \in DOMAIN reg]

\* RegisterParser(parser): the registry afterwards and the error.
RegisterParserOf(reg, p) ==
    IF p = None THEN [parsers |-> reg, err |-> TRUE]
    ELSE IF NameOf(p[1]) = "" THEN [parsers |-> reg, err |-> TRUE]
    ELSE IF NameOf(p[1]) \in DOMAIN reg THEN [parsers |-> reg, err |-> TRUE]
    ELSE [parsers |-> (NameOf(p[1]) :> p[1]) @@ reg, err |-> FALSE]

\* SetDefaultParser that stores the name before it looks the parser up.
SetDefaultParserOf_StoresName(w, reg, dp, dn, key) ==
    LET sel == SelectOf(w, reg, key)
    IN  IF sel = None
        THEN [parser |-> dp,
              name |-> IF w = "part_026" THEN key ELSE dn, err |-> TRUE]
        ELSE [parser |-> sel[1],
              name |-> IF w = "part_026" THEN key ELSE NameOf(sel[1]),
              err |-> FALSE]

\* SetDefaultParser that stores the name and leaves the parser pointer.
SetDefaultParserOf_NameOnly(w, reg, dp, dn, key) ==
    LET sel == SelectOf(w, reg, key)
    IN  IF sel = None
        THEN [parser |-> dp, name |-> dn, err |-> TRUE]
        ELSE [parser |-> dp,
              name |-> IF w = "part_026" THEN key ELSE NameOf(sel[1]),
              err |-> FALSE]

\* SetDefaultParser(name) of part_026 stores the name and the parser;
\* SetDefaultParser(version) of part_024 stores the parser, whose name()
\* GetDefaultParser reports.
SetDefaultParserOf(w, reg, dp, dn, key) ==
    LET sel == SelectOf(w, reg, key)
    IN  IF sel = None
        THEN [parser |-> dp, name |-> dn, err |-> TRUE]
        ELSE [parser |-> sel[1],
              name |-> IF w = "part_026" THEN key ELSE NameOf(sel[1]),
              err |-> FALSE]

\* jit.SetParser(name) / jit.SetParser(version)
JitSetParserOf(w, reg, p, key) ==
    LET sel == SelectOf(w, reg, key)
    IN  IF sel = None THEN [parser |-> p, err |-> TRUE]
        ELSE [parser |-> sel, err |-> FALSE]

\* A cell whose conversions always take the current default parser.
BoundOf_CurrentDefault(w, p, dp) == Some(dp)

\* if jit.parser == nil { jit.parser = getDefaultParser() } in part_022;
\* jitjson.go calls jit.parser with no such test.
BoundOf(w, p, dp) == IF p = None /\ w = "part_026" THEN Some(dp) ELSE p

\* What a call on the registry or on the cell did: its argument, its error,
\* the parser that performed the conversion (if one was performed) and
\* whether the call panicked.
RegCall(op, arg, err, used, panic) ==
    [op |-> op, arg |-> arg, err |-> err, used |-> used, panic |-> panic]

\* How the cell came to be, the default parser at that moment and whether
\* SetParser has succeeded on it since.
Born(made, dp) == [made |-> made, born |-> dp, chosen |-> FALSE]

InitRegistry ==
    /\ elem = "struct"
    /\ Idle
    /\ variant \in Registries
    /\ parsers = IF variant = "part_026" THEN SetupParsers ELSE << >>
    /\ defaultParser = IF variant = "part_026" THEN StdParser ELSE JsonV1Parser
    /\ defaultParserName = NameOf(defaultParser)
    /\ data = None /\ val = None /\ parser = None
    /\ seg = Born("zero", defaultParser)
    /\ last = RegCall("var", None, FALSE, None, FALSE)
    /\ prev = last

RegisterParser(p) ==
    /\ variant = "part_026"
    /\ LET r == RegisterParserOf(parsers, p)
       IN  /\ parsers' = r.parsers
           /\ last' = RegCall("RegisterParser", p, r.err, None, FALSE)
    /\ prev' = last
    /\ UNCHANGED <<data, val, parser, seg, elem, pc, loc, obj, variant,
                   defaultParser, defaultParserName>>

SetDefaultParser(key) ==
    /\ LET r == SetDefaultParserOf(variant, parsers, defaultParser,
                                   defaultParserName, key)
       IN  /\ defaultParser' = r.parser
           /\ defaultParserName' = r.name
           /\ last' = RegCall("SetDefaultParser", Some(key), r.err, None, FALSE)
    /\ prev' = last
    /\ UNCHANGED <<data, val, parser, seg, elem, pc, loc, obj, variant,
                   parsers>>

\* var jit JitJSON[T]: a cell no constructor has touched
JitZero ==
    /\ data' = None /\ val' = None /\ parser' = None
    /\ seg' = Born("zero", defaultParser)
    /\ last' = RegCall("var", None, FALSE, None, FALSE)
    /\ prev' = last
    /\ UNCHANGED others

\* New(val): &JitJSON[T]{val: &val, parser: getDefaultParser()}
JitNew(v) ==
    /\ data' = None /\ val' = Some(v) /\ parser' = Some(defaultParser)
    /\ seg' = Born("New", defaultParser)
    /\ last' = RegCall("New", None, FALSE, None, FALSE)
    /\ prev' = last
    /\ UNCHANGED others

\* NewFromBytes(data): &JitJSON[T]{data: data, parser: getDefaultParser()}
JitNewFromBytes(b) ==
    /\ data' = Some(b) /\ val' = None /\ parser' = Some(defaultParser)
    /\ seg' = Born("NewFromBytes", defaultParser)
    /\ last' = RegCall("NewFromBytes", None, FALSE, None, FALSE)
    /\ prev' = last
    /\ UNCHANGED others

\* jit.UnmarshalJSON(data): jit.val = nil; jit.data = data
JitUnmarshalJSON(b) ==
    /\ data' = Some(b) /\ val' = None
    /\ last' = RegCall("UnmarshalJSON", None, FALSE, None, FALSE)
    /\ prev' = last
    /\ UNCHANGED <<parser, seg, others>>

\* jit.Set(val): jit.val = &val; jit.data = nil
JitSet(v) ==
    /\ data' = None /\ val' = Some(v)
    /\ last' = RegCall("Set", None, FALSE, None, FALSE)
    /\ prev' = last
    /\ UNCHANGED <<parser, seg, others>>

JitSetParser(key) ==
    /\ LET r == JitSetParserOf(variant, parsers, parser, key)
       IN  /\ parser' = r.parser
           /\ seg' = [seg EXCEPT !.chosen = @ \/ ~r.err]
           /\ last' = RegCall("SetParser", Some(key), r.err, None, FALSE)
    /\ prev' = last
    /\ UNCHANGED <<data, val, others>>

\* jit.Marshal()
JitMarshal ==
    /\ prev' = last
    /\ IF data # None \/ val = None
       THEN /\ last' = RegCall("Marshal", None, FALSE, None, FALSE)
            /\ UNCHANGED <<data, val, parser>>
       ELSE LET q == BoundOf(variant, parser, defaultParser)
            IN  IF q = None
                THEN /\ last' = RegCall("Marshal", None, TRUE, None, TRUE)
                     /\ UNCHANGED <<data, val, parser>>
                ELSE LET r == ParserMarshal(q[1], val[1])
                     IN  /\ data' = r.bytes
                         /\ parser' = q
                         /\ last' = RegCall("Marshal", None, r.err, q, FALSE)
                         /\ UNCHANGED val
    /\ UNCHANGED <<seg, others>>

\* jit.Unmarshal()
JitUnmarshal ==
    /\ prev' = last
    /\ IF val # None \/ data = None
       THEN /\ last' = RegCall("Unmarshal", None, FALSE, None, FALSE)
            /\ UNCHANGED <<data, val, parser>>
       ELSE LET q == BoundOf(variant, parser, defaultParser)
            IN  IF q = None
                THEN /\ last' = RegCall("Unmarshal", None, TRUE, None, TRUE)
                     /\ val' = Some(Zero)
                     /\ UNCHANGED <<data, parser>>
                ELSE LET r == ParserUnmarshal(q[1], data[1])
                     IN  /\ val' = Some(r.val)
                         /\ parser' = q
                         /\ last' = RegCall("Unmarshal", None, r.err, q, FALSE)
                         /\ UNCHANGED data
    /\ UNCHANGED <<seg, others>>

NextRegistry ==
    \/ \E p \in {None} \cup {Some(x) : x \in {StdParser, Parser1, Parser2, Unnamed}} :
          RegisterParser(p)
    \/ \E key \in KeysOf(variant) : SetDefaultParser(key)
    \/ JitZero
    \/ \E v \in RegValues : JitNew(v)
    \/ \E b \in RegBytes : JitNewFromBytes(b)
    \/ \E b \in RegBytes : JitUnmarshalJSON(b)
    \/ \E v \in RegValues : JitSet(v)
    \/ \E key \in KeysOf(variant) : JitSetParser(key)
    \/ JitMarshal
    \/ JitUnmarshal

SpecRegistry == InitRegistry /\ [][NextRegistry]_vars

TypeOKRegistry ==
    /\ variant \in Registries
    /\ defaultParser \in ParserObjects
    /\ parser \in {None} \cup {Some(p) : p \in ParserObjects}
    /\ \A n \in DOMAIN parsers : parsers[n] \in ParserObjects

\* C28: a cell that existed before SetDefaultParser succeeded, however it was
\* created, performs its conversions with the parser that was the default
\* when it was created (its own SetParser aside).
C28_ExistingCellsKeepTheirParser ==
    (last.used # None /\ ~seg.chosen) => last.used = Some(seg.born)

\* C28, amended: a cell made by New or NewFromBytes holds the parser that
\* was the default at its construction and converts with it, whatever
\* SetDefaultParser does later; a cell no constructor made holds no parser
\* until its first conversion, which in part_022 binds it to the default
\* parser current at that moment (kept from then on) and in jitjson.go
\* panics without converting.
C28_ConstructorBindsTheParser ==
    [][/\ (seg'.made \in {"New", "NewFromBytes"} /\ ~seg'.chosen)
              => /\ parser' = Some(seg'.born)
                 /\ last'.used # None => last'.used = parser'
       /\ (seg.made = "zero" /\ ~seg.chosen /\ parser = None
              /\ last'.used # None)
              => /\ last'.used = Some(defaultParser)
                 /\ parser' = last'.used
       /\ (variant = "part_024" /\ parser = None
              /\ last'.op \in {"Marshal", "Unmarshal"})
              => (last'.used = None /\ parser' = None
                  /\ (last'.err => last'.panic))
       /\ (last'.op \notin {"var", "New", "NewFromBytes"} /\ ~seg'.chosen
              /\ parser # None)
              => parser' = parser]_vars

\* A constructed cell converted with its own parser after the default had
\* been changed to another one.
C28_Witness ==
    /\ seg.made = "New" /\ ~seg.chosen
    /\ seg.born # defaultParser
    /\ last.op = "Marshal" /\ last.used = Some(seg.born)

\* C29: RegisterParser returns an error for a nil parser, for an empty name
\* and for a name already registered, and a call that returns an error
\* leaves the registry as it was, so each name still selects the parser it
\* selected before.
C29_RejectedRegistrationChangesNothing ==
    [][last'.op = "RegisterParser"
          => /\ (\/ last'.arg = None
                 \/ NameOf(last'.arg[1]) = ""
                 \/ NameOf(last'.arg[1]) \in DOMAIN parsers) => last'.err
             /\ last'.err
                   => /\ parsers' = parsers
                      /\ \A n \in Names :
                            SelectOf(variant, parsers', n)
                                = SelectOf(variant, parsers, n)]_vars

\* parser2 was rejected under the name parser1 is registered with.
C29_Witness ==
    /\ last.op = "RegisterParser" /\ last.err
    /\ last.arg = Some(Parser2)
    /\ "duplicate-parser" \in DOMAIN parsers
    /\ parsers["duplicate-parser"] = Parser1

\* C30: SetDefaultParser with a name or version that selects no parser
\* returns an error and leaves the default parser and its name as they were;
\* a cell constructed afterwards gets that same default parser.
C30_UnknownDefaultIsRejected ==
    [][/\ (last'.op = "SetDefaultParser"
              /\ SelectOf(variant, parsers, last'.arg[1]) = None)
              => /\ last'.err
                 /\ defaultParser' = defaultParser
                 /\ defaultParserName' = defaultParserName
       /\ last'.op \in {"New", "NewFromBytes"}
              => parser' = Some(defaultParser)]_vars

\* An unknown name was rejected while a parser other than the initial one was
\* the default.
C30_Witness ==
    /\ last.op = "SetDefaultParser" /\ last.err
    /\ defaultParser # StdParser /\ defaultParser # JsonV1Parser
    /\ prev.op = "SetDefaultParser" /\ ~prev.err

ParserNameOf(p) == IF p = None THEN "<nil>" ELSE NameOf(p[1])

\* C32: after SetParser(name) succeeds on a cell that holds a value, Parser()
\* returns name and the next Marshal returns the bytes that the parser
\* registered under name produces for the cell's value (Marshal returns
\* jit.data when it returns no error).
C32_SetParserTakesEffect ==
    /\ (variant = "part_026" /\ last.op = "SetParser" /\ ~last.err
            /\ val # None)
           => ParserNameOf(parser) = last.arg[1]
    /\ (prev.op = "SetParser" /\ ~prev.err /\ last.op = "Marshal"
            /\ val # None)
           => LET r == ParserMarshal(
                           SelectOf(variant, parsers, prev.arg[1])[1], val[1])
              IN  /\ last.err = r.err
                  /\ ~r.err => data = r.bytes

\* C33: the first conversion of a cell that no constructor built (a zero
\* value filled by Set or UnmarshalJSON, with no parser yet) does not panic,
\* is performed by the current default parser, and leaves Parser() equal to
\* DefaultParser().
C33_ZeroCellConvertsWithDefault ==
    [][(seg.made = "zero" /\ parser = None
           /\ last'.op \in {"Marshal", "Unmarshal"})
          => /\ ~last'.panic
             /\ last'.used # None
                   => /\ last'.used = Some(defaultParser)
                      /\ ParserNameOf(parser') = defaultParserName]_vars

\* C34: whenever data and val are both present they correspond: val is what
\* some parser of the cell decodes data to without error, or data is what
\* some parser of the cell encodes val to without error.
C34_DataAndValueCorrespond ==
    (data # None /\ val # None)
        => \E p \in Parsers :
              \/ Decode(p, data[1]) = [val |-> val[1], err |-> FALSE]
              \/ Encode(p, val[1]) = [bytes |-> data, err |-> FALSE]

----------------------------------------------------------------------------
\* Two goroutines, each inside one call of SetDefaultParser, RegisterParser
\* or SetParser.  None of the three takes a lock: the name and the pointer
\* of the default are two separate atomic stores, and the parsers map is
\* read and written directly.

RegistryOps ==
    [op : {"SetDefaultParser"}, arg : {"encoding/json", "duplicate-parser"}]
        \cup [op : {"RegisterParser"}, arg : {Parser1, Parser2}]
        \cup [op : {"SetParser"}, arg : {"duplicate-parser"}]

\* The locals of one call: the operation and its argument, the parser the
\* map lookup found, and the error returned.
RegLocals(o) == [op |-> o.op, arg |-> o.arg, found |-> None, err |-> FALSE]

\* The runtime's state of the map: the goroutine inside a map assignment
\* (the hashWriting flag), and whether the runtime has thrown "concurrent
\* map writes" or "concurrent map read and map write".
MapState(writing, fatal) == [writing |-> writing, fatal |-> fatal]

InitRegistryRace ==
    /\ elem = "struct"
    /\ variant = "part_026"
    /\ data = None /\ val = Some(One) /\ parser = Some(StdParser)
    /\ parsers \in {SetupParsers, ("duplicate-parser" :> Parser1) @@ SetupParsers}
    /\ defaultParser = StdParser
    /\ defaultParserName = "encoding/json"
    /\ pc = [t \in Threads |-> "start"]
    /\ loc \in [Threads -> {RegLocals(o) : o \in RegistryOps}]
    /\ obj = [t \in Threads |-> Zero]
    /\ seg = MapState(None, FALSE)
    /\ last = RegCall("var", None, FALSE, None, FALSE)
    /\ prev = last

\* An access to the map by goroutine t while another goroutine is inside an
\* assignment to it is a data race: the runtime may throw, or the access may
\* go through.
MapAccess(t) ==
    /\ ~seg.fatal
    /\ \/ seg' = seg
       \/ /\ seg.writing # None /\ seg.writing # Some(t)
          /\ seg' = [seg EXCEPT !.fatal = TRUE]

\* parser, exists := parsers[name]; if !exists { return error }
LookupDefault(t) ==
    /\ pc[t] = "start" /\ loc[t].op = "SetDefaultParser"
    /\ MapAccess(t)
    /\ IF seg'.fatal THEN UNCHANGED <<pc, loc>>
       ELSE LET sel == SelectOf(variant, parsers, loc[t].arg)
            IN  IF sel = None
                THEN /\ pc' = [pc EXCEPT ![t] = "done"]
                     /\ loc' = [loc EXCEPT ![t].err = TRUE]
                ELSE /\ pc' = [pc EXCEPT ![t] = "storeName"]
                     /\ loc' = [loc EXCEPT ![t].found = sel]
    /\ UNCHANGED <<data, val, parser, last, prev, elem, obj, variant, registry>>

\* defaultParserName.Store(name)
StoreName(t) ==
    /\ pc[t] = "storeName" /\ ~seg.fatal
    /\ defaultParserName' = loc[t].arg
    /\ pc' = [pc EXCEPT ![t] = "storePtr"]
    /\ UNCHANGED <<data, val, parser, last, prev, seg, elem, obj, variant,
                   loc, parsers, defaultParser>>

\* atomic.StorePointer(&defaultParser, unsafe.Pointer(&parser)); return nil
StorePointer(t) ==
    /\ pc[t] = "storePtr" /\ ~seg.fatal
    /\ defaultParser' = loc[t].found[1]
    /\ pc' = [pc EXCEPT ![t] = "done"]
    /\ UNCHANGED <<data, val, parser, last, prev, seg, elem, obj, variant,
                   loc, parsers, defaultParserName>>

\* if _, exists := parsers[name]; exists { return error }
LookupDuplicate(t) ==
    /\ pc[t] = "start" /\ loc[t].op = "RegisterParser"
    /\ MapAccess(t)
    /\ IF seg'.fatal THEN UNCHANGED <<pc, loc>>
       ELSE IF NameOf(loc[t].arg) \in DOMAIN parsers
            THEN /\ pc' = [pc EXCEPT ![t] = "done"]
                 /\ loc' = [loc EXCEPT ![t].err = TRUE]
            ELSE /\ pc' = [pc EXCEPT ![t] = "insert"]
                 /\ UNCHANGED loc
    /\ UNCHANGED <<data, val, parser, last, prev, elem, obj, variant, registry>>

\* parsers[name] = parser: the assignment begins
InsertBegin(t) ==
    /\ pc[t] = "insert"
    /\ MapAccess(t)
    /\ IF seg'.fatal THEN UNCHANGED pc
       ELSE pc' = [pc EXCEPT ![t] = "inserting"]
    /\ UNCHANGED <<data, val, parser, last, prev, elem, obj, variant, loc,
                   registry>>

\* While the assignment is in flight the map carries the writing flag.
InsertFlag(t) ==
    /\ pc[t] = "inserting" /\ ~seg.fatal /\ seg.writing # Some(t)
    /\ seg' = [seg EXCEPT !.writing = Some(t)]
    /\ UNCHANGED <<data, val, parser, last, prev, elem, obj, variant, pc, loc,
                   registry>>

\* the assignment completes; return nil
InsertEnd(t) ==
    /\ pc[t] = "inserting" /\ ~seg.fatal /\ seg.writing = Some(t)
    /\ parsers' = (NameOf(loc[t].arg) :> loc[t].arg) @@ parsers
    /\ seg' = [seg EXCEPT !.writing = None]
    /\ pc' = [pc EXCEPT ![t] = "done"]
    /\ UNCHANGED <<data, val, parser, last, prev, elem, obj, variant, loc,
                   defaultParser, defaultParserName>>

\* jit.SetParser(name): parser, exists := parsers[name]; jit.parser = parser
LookupForCell(t) ==
    /\ pc[t] = "start" /\ loc[t].op = "SetParser"
    /\ MapAccess(t)
    /\ IF seg'.fatal THEN UNCHANGED <<pc, loc, parser>>
       ELSE LET r == JitSetParserOf(variant, parsers, parser, loc[t].arg)
            IN  /\ parser' = r.parser
                /\ loc' = [loc EXCEPT ![t].err = r.err,
                                      ![t].found = IF r.err THEN None
                                                   ELSE r.parser]
                /\ pc' = [pc EXCEPT ![t] = "done"]
    /\ UNCHANGED <<data, val, last, prev, elem, obj, variant, registry>>

RegistryStep(t) ==
    \/ LookupDefault(t)
    \/ StoreName(t)
    \/ StorePointer(t)
    \/ LookupDuplicate(t)
    \/ InsertBegin(t)
    \/ InsertFlag(t)
    \/ InsertEnd(t)
    \/ LookupForCell(t)

NextRegistryRace == \E t \in Threads : RegistryStep(t)

SpecRegistryRace == InitRegistryRace /\ [][NextRegistryRace]_vars

\* Every call has returned.
AllReturned == \A t \in Threads : pc[t] = "done"

\* C35: once concurrent SetDefaultParser calls have all returned, the stored
\* default name selects the stored default parser.
C35_DefaultNameMatchesDefaultParser ==
    (AllReturned /\ ~seg.fatal)
        => SelectOf(variant, parsers, defaultParserName) = Some(defaultParser)

\* C36: of two concurrent RegisterParser calls for one name at most one
\* returns nil, every parser whose registration returned nil is the one its
\* name selects, and no call running next to RegisterParser brings the
\* process down.
C36_ConcurrentRegistrationIsSafe ==
    /\ ~seg.fatal
    /\ AllReturned
          => /\ \A t \in Threads : \A u \in Threads \ {t} :
                   (/\ loc[t].op = "RegisterParser"
                    /\ loc[u].op = "RegisterParser"
                    /\ NameOf(loc[t].arg) = NameOf(loc[u].arg))
                       => (loc[t].err \/ loc[u].err)
             /\ \A t \in Threads :
                   (loc[t].op = "RegisterParser" /\ ~loc[t].err)
                       => SelectOf(variant, parsers, NameOf(loc[t].arg))
                              = Some(loc[t].arg)

----------------------------------------------------------------------------
\* The cell as a byte-stream source: a consumer calls Read again and again
\* and appends what each call delivered.

\* Cap on the number of consecutive Read calls of the consumer.
MaxReads == 3

\* The bytes Marshal returns for the cell, as a string.
StreamOf(e, d, v) ==
    LET r == MarshalElemOf(e, d, v)
    IN  IF r.ret = None THEN "" ELSE r.ret[1]

\* Read(p) with len(p) = k: copy(p, data) of the Marshal result, from its
\* first byte, with a nil error; there is no read position and no io.EOF.
StreamReadOf(e, d, v, k) ==
    LET s == StreamOf(e, d, v)
        n == Min(k, Len(s))
    IN  [len |-> k, n |-> n, bytes |-> SubSeq(s, 1, n), eof |-> FALSE]

\* What the consumer has after a Read: the call's result, the bytes received
\* since it started reading, and the number of calls.
Stream(r, got, reads) ==
    [op |-> "Read", len |-> r.len, n |-> r.n, eof |-> r.eof,
     got |-> got \o r.bytes, reads |-> reads + 1]

StreamRead(k) ==
    /\ last.op = "Read" => (last.reads < MaxReads /\ ~last.eof)
    /\ LET r == StreamReadOf(elem, data, val, k)
       IN  last' = IF last.op = "Read"
                   THEN Stream(r, last.got, last.reads)
                   ELSE Stream(r, "", 0)
    /\ prev' = last
    /\ UNCHANGED <<data, val, parser, seg, others>>

NextStream ==
    \/ NextElem
    \/ \E k \in 0..MaxBuf : StreamRead(k)

SpecStream == InitElem /\ [][NextStream]_vars

\* C37: what the consumer has received is always the beginning of the bytes
\* Marshal returns, and once it has received all of them the next Read into
\* a buffer that is not empty signals end-of-stream.
C37_ReadDeliversTheEncodingOnce ==
    last.op = "Read"
        => LET s == StreamOf(elem, data, val)
           IN  /\ Len(last.got) <= Len(s)
               /\ last.got = SubSeq(s, 1, Len(last.got))
               /\ (prev.op = "Read" /\ prev.got = s /\ last.len > 0) => last.eof

\* C38: AsBool, AsNumber, AsString, AsArray, AsObject and MarshalJSON on a
\* nil dynamic value do not panic, and the accessors return ok = false.
C38_NilValueAccessDoesNotPanic ==
    /\ (\E op \in NilAccessors : last.op = op \o "(nil)")
           => (last.ret # <<"panic">> /\ ~last.ok)
    /\ last.op = "MarshalJSON(nil)" => last.ret # <<"panic">>

----------------------------------------------------------------------------
\* The json/v2 decode hook: the cell reads its value from a token decoder.

\* two values in one stream
TwoValues == EncA0 \o EncA1

\* What the decoder has left to read.
Streams == {Empty, Null, EncA1, WsA1, BadB, PartA1, TwoValues}

\* dec.ReadValue(): the next value, without the whitespace before it, or an
\* error at the end of the input and on a syntax error; json types are not
\* looked at.
ReadValueOf(s) ==
    IF s \in {Empty, PartA1} THEN [value |-> None, err |-> TRUE]
    ELSE IF s = WsA1 THEN [value |-> Some(EncA1), err |-> FALSE]
    ELSE IF s = TwoValues THEN [value |-> Some(EncA0), err |-> FALSE]
    ELSE [value |-> Some(s), err |-> FALSE]

\* UnmarshalJSONFrom that clears the cached value before it reads.
UnmarshalJSONFromOf_ClearsFirst(d, v, s) ==
    LET r == ReadValueOf(s)
    IN  IF r.err THEN [data |-> d, val |-> None, err |-> TRUE]
        ELSE [data |-> r.value, val |-> None, err |-> FALSE]

\* UnmarshalJSONFrom(dec): value, err := dec.ReadValue(); on an error return
\* it; else jit.val = nil; jit.data = []byte(value); return nil
UnmarshalJSONFromOf(d, v, s) ==
    LET r == ReadValueOf(s)
    IN  IF r.err THEN [data |-> d, val |-> v, err |-> TRUE]
        ELSE [data |-> r.value, val |-> None, err |-> FALSE]

UnmarshalJSONFrom(s) ==
    LET r == UnmarshalJSONFromOf(data, val, s)
    IN  /\ data' = r.data
        /\ val' = r.val
        /\ prev' = last
        /\ last' = Call("UnmarshalJSONFrom", ReadValueOf(s).value, Zero,
                        r.err, 0, 0)
        /\ seg' = IF r.err THEN seg
                  ELSE NewSeg("UnmarshalJSONFrom", r.data, None,
                              data # None, val # None)
        /\ UNCHANGED <<parser, others>>

NextFrom ==
    \/ Next
    \/ \E s \in Streams : UnmarshalJSONFrom(s)

SpecFrom == Init /\ [][NextFrom]_vars

\* C39: when reading the value from the decoder fails, UnmarshalJSONFrom
\* returns the error and leaves data and val as they were; when it succeeds,
\* val is cleared and data is exactly the value read.
C39_DecodeHookReplacesAtomically ==
    [][last'.op = "UnmarshalJSONFrom"
          => /\ last'.err => (data' = data /\ val' = val
                              /\ last'.bytes = None)
             /\ ~last'.err => (val' = None /\ data' = last'.bytes
                               /\ last'.bytes # None)
             /\ \E s \in Streams :
                   /\ last'.err = ReadValueOf(s).err
                   /\ last'.bytes = ReadValueOf(s).value]_vars

\* A failed read left a cell with both an encoding and a decoded value
\* untouched.
C39_Witness ==
    /\ last.op = "UnmarshalJSONFrom" /\ last.err
    /\ prev.op = "Unmarshal" /\ ~prev.err
    /\ data # None /\ val # None

====
